---- MODULE Spec2Model ----
(***************************************************************************)
(* A model of book_classificator.py: the ISBN pattern matcher (_ISBN_RE,   *)
(* _normalize_isbn, Book._find_isbn_in_text) and the Book descriptor with  *)
(* its cached attributes and its four PDF/EPUB extraction routines.        *)
(*                                                                         *)
(* A Python str is a sequence of one-character strings; Python's None is   *)
(* the sequence None below, which is no str because "None" is not a        *)
(* character.                                                              *)
(***************************************************************************)
EXTENDS Naturals, Sequences, FiniteSets, TLC

\* ------------------------------------------------------------------------
\* Characters and the character classes of Python's re on str patterns
\* ------------------------------------------------------------------------

None == <<"None">>

AsciiDigits == {"0", "1", "2", "3", "4", "5", "6", "7", "8", "9"}

\* ARABIC-INDIC DIGIT THREE (U+0663): \d matches it, [0-9Xx] does not.
ArabicThree == "U+0663"

Letters == {"I", "S", "B", "N", "X", "x", "a", "e", "k", "m", "o", "p", "l",
            "J", "n", "D", "P", "F", "E", "U", "d", "f", "b", "u", "t"}

\* \d of a str pattern: every Unicode decimal digit.
IsDigit(c) == c \in AsciiDigits \cup {ArabicThree}

\* \s of a str pattern: Unicode whitespace.
IsSpace(c) == c \in {" ", "\n", "\t"}

\* \w (for \b): Unicode alphanumerics and the underscore.
IsWord(c) == IsDigit(c) \/ c \in Letters \/ c = "_"

\* [-\s]
IsSep(c) == c = "-" \/ IsSpace(c)

\* [0-9Xx]
IsCheckChar(c) == c \in AsciiDigits \cup {"X", "x"}

\* ------------------------------------------------------------------------
\* The backtracking matcher.  A position p of text t is the index of the
\* next character to consume, 1 .. Len(t) + 1.  Each piece of the pattern
\* maps a position to the list of positions it can end at, in the order the
\* backtracking engine tries them.
\* ------------------------------------------------------------------------

At(t, p, c) == p <= Len(t) /\ t[p] = c

InSeq(x, s) == \E i \in 1..Len(s) : s[i] = x

\* The concatenation of the lists of ss, a position kept only where it first
\* occurs: the continuation of the match depends on the position alone, so a
\* later occurrence fails as the first one did.
RECURSIVE MergeFrom(_, _, _)
MergeFrom(acc, ss, i) ==
    IF i > Len(ss) THEN acc
    ELSE MergeFrom(acc \o SelectSeq(ss[i], LAMBDA x : ~InSeq(x, acc)), ss, i + 1)

Merge(ss) == MergeFrom(<<>>, ss, 1)

\* Then(ps, F): the piece F tried from every position of ps, in order.
Then(ps, F(_)) == Merge([i \in 1..Len(ps) |-> F(ps[i])])

\* The length of the run of \d characters that starts at p.
RECURSIVE DigitRun(_, _)
DigitRun(t, p) ==
    IF p <= Len(t) /\ IsDigit(t[p]) THEN 1 + DigitRun(t, p + 1) ELSE 0

\* The length of the run of \s characters that starts at p.
RECURSIVE SpaceRun(_, _)
SpaceRun(t, p) ==
    IF p <= Len(t) /\ IsSpace(t[p]) THEN 1 + SpaceRun(t, p + 1) ELSE 0

Min(a, b) == IF a < b THEN a ELSE b

\* Greedy repetition of k .. 1 characters: the longest first.
Downto(p, k) == [i \in 1..k |-> p + k + 1 - i]

\* \d+
DigitsPlus(t, p) == Downto(p, DigitRun(t, p))

\* \d{1,5}
Digits1to5(t, p) == Downto(p, Min(5, DigitRun(t, p)))

\* \d
OneDigit(t, p) == IF p <= Len(t) /\ IsDigit(t[p]) THEN <<p + 1>> ELSE <<>>

\* [0-9Xx]
OneCheckChar(t, p) ==
    IF p <= Len(t) /\ IsCheckChar(t[p]) THEN <<p + 1>> ELSE <<>>

\* [-\s]?  (greedy: the separator is taken first, then skipped)
OptSep(t, p) == IF p <= Len(t) /\ IsSep(t[p]) THEN <<p + 1, p>> ELSE <<p>>

\* 97[89]
Lit97x(t, p) ==
    IF At(t, p, "9") /\ At(t, p + 1, "7") /\ (At(t, p + 2, "8") \/ At(t, p + 2, "9"))
    THEN <<p + 3>> ELSE <<>>

\* (?:97[89][-\s]?\d{1,5}[-\s]?\d+[-\s]?\d+[-\s]?\d)
Alt13(t, p) ==
    LET sep(q) == OptSep(t, q)
        d15(q) == Digits1to5(t, q)
        dp(q)  == DigitsPlus(t, q)
        d1(q)  == OneDigit(t, q)
    IN  Then(Then(Then(Then(Then(Then(Then(Then(Lit97x(t, p),
           sep), d15), sep), dp), sep), dp), sep), d1)

\* (?:\d{1,5}[-\s]?\d+[-\s]?\d+[-\s]?[0-9Xx])
Alt10(t, p) ==
    LET sep(q) == OptSep(t, q)
        dp(q)  == DigitsPlus(t, q)
        cc(q)  == OneCheckChar(t, q)
    IN  Then(Then(Then(Then(Then(Then(Digits1to5(t, p),
           sep), dp), sep), dp), sep), cc)

\* Group 1: the 13-digit shape is tried before the 10-character shape.
IsbnGroup(t, p) == Merge(<<Alt13(t, p), Alt10(t, p)>>)

\* (?:-1[03])?
OptDash1x(t, p) ==
    IF At(t, p, "-") /\ At(t, p + 1, "1") /\ (At(t, p + 2, "0") \/ At(t, p + 2, "3"))
    THEN <<p + 3, p>> ELSE <<p>>

\* :?
OptColon(t, p) == IF At(t, p, ":") THEN <<p + 1, p>> ELSE <<p>>

\* \s*
SpaceStar(t, p) == Downto(p, SpaceRun(t, p)) \o <<p>>

\* (?:ISBN(?:-1[03])?:?\s*)?   (case-sensitive: the pattern has no flag)
OptPrefix(t, p) ==
    LET dash(q)  == OptDash1x(t, q)
        colon(q) == OptColon(t, q)
        ws(q)    == SpaceStar(t, q)
        isbn == IF At(t, p, "I") /\ At(t, p + 1, "S") /\ At(t, p + 2, "B")
                   /\ At(t, p + 3, "N")
                THEN <<p + 4>> ELSE <<>>
    IN  Merge(<<Then(Then(Then(isbn, dash), colon), ws), <<p>>>>)

\* \b at position p: exactly one of the characters around p is a \w.
WordBoundary(t, p) ==
    LET before == p > 1 /\ IsWord(t[p - 1])
        after  == p <= Len(t) /\ IsWord(t[p])
    IN  before # after

\* A match: the start and the end of group 1.
Spans(g, ends) == [i \in 1..Len(ends) |-> <<g, ends[i]>>]

\* The matches of group 1 started at g after which the final \b holds, in the
\* order they are tried.
GroupMatches(t, g) ==
    Spans(g, SelectSeq(IsbnGroup(t, g), LAMBDA e : WordBoundary(t, e)))

\* The group tried from every start gs of it that the optional prefix allows.
MatchesFrom(t, gs) == Merge([i \in 1..Len(gs) |-> GroupMatches(t, gs[i])])

FirstOf(ms) == IF ms = <<>> THEN <<>> ELSE ms[1]

\* The first match that starts at s, or <<>> when the pattern does not match
\* at s.
MatchAt(t, s) ==
    IF ~WordBoundary(t, s) THEN <<>>
    ELSE FirstOf(MatchesFrom(t, OptPrefix(t, s)))

\* _ISBN_RE.search(text): the match at the leftmost start, or <<>>.
RECURSIVE SearchFrom(_, _)

\* The match m found at start s, or else the search from the next start.
MatchOrOn(m, t, s) == IF m # <<>> THEN m ELSE SearchFrom(t, s + 1)

SearchFrom(t, s) ==
    IF s > Len(t) + 1 THEN <<>> ELSE MatchOrOn(MatchAt(t, s), t, s)

Search(t) == SearchFrom(t, 1)

\* str.upper() on the characters [0-9Xx]
UpperAll(s) == [i \in 1..Len(s) |-> IF s[i] = "x" THEN "X" ELSE s[i]]

\* The normalization with the separators left in: only the upper-casing.
NormalizeKeepsSeparators(raw) == UpperAll(raw)

\* The normalization without the upper-casing: only the stripping.
NormalizeKeepsCase(raw) == SelectSeq(raw, IsCheckChar)

\* re.sub(r'[^0-9Xx]', '', raw).upper()
NormalizeIsbn(raw) == UpperAll(SelectSeq(raw, IsCheckChar))

\* _normalize_isbn(match.group(1)) if match else None
GroupOrNone(text, m) ==
    IF m # <<>> THEN NormalizeIsbn(SubSeq(text, m[1], m[2] - 1)) ELSE None

\* Book._find_isbn_in_text
FindIsbnInText(text) == GroupOrNone(text, Search(text))

\* ------------------------------------------------------------------------
\* Values of the Book descriptor
\* ------------------------------------------------------------------------

PDF == <<"P", "D", "F">>
EPUB == <<"E", "P", "U", "B">>
Unknown == <<"U", "n", "k", "n", "o", "w", "n">>

\* Python truthiness of an Optional[str].
Truthy(v) == v # None /\ v # <<>>

\* a or b
Or(a, b) == IF Truthy(a) THEN a ELSE b

\* {}: a dict is the set of its <<key, value>> items.
EmptyDict == {}

\* {'title': t, 'author': a}
MetadataDict(t, a) == {<<"title", t>>, <<"author", a>>}

\* d.get(k) of a dict, getattr(d, k, None) of an object
Get(d, k) ==
    IF \E item \in d : item[1] = k
    THEN (CHOOSE item \in d : item[1] = k)[2]
    ELSE None

\* str.lower() on the letters a suffix is built of.
LowerChar(c) ==
    CASE c = "P" -> "p" [] c = "D" -> "d" [] c = "F" -> "f" [] c = "E" -> "e"
      [] c = "U" -> "u" [] c = "B" -> "b" [] c = "T" -> "t" [] c = "X" -> "x"
      [] OTHER -> c

Lower(s) == [i \in 1..Len(s) |-> LowerChar(s[i])]

\* The format looked up without lower-casing the suffix.
FormatOfExactCase(sfx) ==
    IF sfx = <<".", "p", "d", "f">> THEN PDF
    ELSE IF sfx = <<".", "e", "p", "u", "b">> THEN EPUB
    ELSE Unknown

\* formats.get(self.filepath.suffix.lower(), 'Unknown')
FormatOf(sfx) ==
    LET low == Lower(sfx)
    IN  IF low = <<".", "p", "d", "f">> THEN PDF
        ELSE IF low = <<".", "e", "p", "u", "b">> THEN EPUB
        ELSE Unknown

\* The outcome of a call: a returned value, or an exception raised.
Returned(v) == [raised |-> FALSE, value |-> v]
Raised == [raised |-> TRUE, value |-> None]

\* ------------------------------------------------------------------------
\* The file behind the path.  kind is the container the bytes really are
\* ("pdf", "epub", or "corrupt": neither library opens it); info is the
\* declared metadata: status "ok", "none" (reader.metadata is None) or
\* "error" (reading it raises), and the entries, each a name with the list
\* of values declared for it (a PDF info key has one); blocks are the pages
\* of a PDF or the items of an EPUB, each with its body: a text, None
\* (extract_text() returned None) or ReadError (reading it raises).
\* ------------------------------------------------------------------------

ReadError == <<"ReadError">>

Info(status, entries) == [status |-> status, entries |-> entries]

\* The info dictionary of a PDF as the dict pypdf hands out.
InfoDict(info) == {<<e[1], e[2][1]>> : e \in info.entries}

\* A byte sequence that is not valid UTF-8; decode(errors='ignore') drops it.
InvalidByte == "\\xff"

\* bytes.decode('utf-8', errors='ignore')
Decode(body) == SelectSeq(body, LAMBDA c : c # InvalidByte)

Block(doc, body) == [doc |-> doc, body |-> body]

\* max_pages of _extract_isbn_from_pdf
MaxPagesDefault == 10

\* reader.pages without the slice.
AllPages(blocks, max_pages) == blocks

\* reader.pages[:max_pages]
FirstPages(blocks, max_pages) == SubSeq(blocks, 1, Min(max_pages, Len(blocks)))

\* pypdf.PdfReader(path) raises unless the file is a PDF;
\* epub.read_epub(path) raises unless it is an EPUB.
OpensAs(f, kind) == f.kind = kind

\* The body of _extract_pdf_metadata's try block.
PdfMetadataBody(f) ==
    IF ~OpensAs(f, "pdf") \/ f.info.status = "error" THEN Raised
    ELSE LET info == IF f.info.status = "none" THEN EmptyDict
                     ELSE InfoDict(f.info)
         IN  Returned(MetadataDict(Or(Get(info, "/Title"), Get(info, "title")),
                                   Or(Get(info, "/Author"), Get(info, "author"))))

\* (book.get_metadata('DC', name) or [None])[0][0] if ... else None
DcFirst(info, name) ==
    LET values == Get(info.entries, name)
    IN  IF values # None /\ values # <<>> THEN values[1] ELSE None

\* The body of _extract_epub_metadata's try block.
EpubMetadataBody(f) ==
    IF ~OpensAs(f, "epub") \/ f.info.status = "error" THEN Raised
    ELSE Returned(MetadataDict(DcFirst(f.info, "title"),
                               DcFirst(f.info, "creator")))

\* except Exception: ... return {}
CatchToEmptyDict(outcome) ==
    IF outcome.raised THEN Returned(EmptyDict) ELSE outcome

\* What an extraction routine did: its outcome, whether its except clause
\* ran (and logged), and the reads of its scan.
Extraction(outcome, failed, read) ==
    [outcome |-> outcome, failed |-> failed, read |-> read]

\* try: body   except Exception as exc: logger.debug(...); return {}
TryMetadata(body) == Extraction(CatchToEmptyDict(body), body.raised, <<>>)

\* Book._extract_pdf_metadata
ExtractPdfMetadata(f) == TryMetadata(PdfMetadataBody(f))

\* Book._extract_epub_metadata
ExtractEpubMetadata(f) == TryMetadata(EpubMetadataBody(f))

\* What one ISBN scan did: how it ended, and its reads in order, each with
\* the index of the block, the text handed to _find_isbn_in_text (ReadError
\* when getting the text raised) and what _find_isbn_in_text returned.
ScanResult(outcome, read) == [outcome |-> outcome, read |-> read]

ReadOf(i, txt, found) == [idx |-> i, text |-> txt, found |-> found]

\* page.extract_text() or ''
PageText(body) == IF body = None THEN <<>> ELSE body

\* for page in pages: isbn = find(page.extract_text() or ''); if isbn: return
\* from the k-th page on; falling off the loop returns None.
RECURSIVE PdfScanFrom(_, _, _)

\* if isbn: return isbn    with isbn what the k-th page has given
PdfScanStep(pages, k, read, isbn) ==
    IF Truthy(isbn)
    THEN ScanResult(Returned(isbn),
                    Append(read, ReadOf(k, PageText(pages[k].body), isbn)))
    ELSE PdfScanFrom(pages, k + 1,
                     Append(read, ReadOf(k, PageText(pages[k].body), isbn)))

\* The scan with the try inside the loop: a page that cannot be read is
\* passed over.
PdfScanSkipsUnreadable(pages, k, read) ==
    IF k > Len(pages) THEN ScanResult(Returned(None), read)
    ELSE IF pages[k].body = ReadError
    THEN PdfScanStep(pages, k, read, None)
    ELSE PdfScanStep(pages, k, read, FindIsbnInText(PageText(pages[k].body)))

PdfScanFrom(pages, k, read) ==
    IF k > Len(pages) THEN ScanResult(Returned(None), read)
    ELSE IF pages[k].body = ReadError
    THEN ScanResult(Raised, Append(read, ReadOf(k, ReadError, None)))
    ELSE PdfScanStep(pages, k, read, FindIsbnInText(PageText(pages[k].body)))

\* The scan over reader.pages[1:max_pages]: the first page is left out.
PdfIsbnBodyFromSecond(f, max_pages) ==
    IF ~OpensAs(f, "pdf") THEN ScanResult(Raised, <<>>)
    ELSE PdfScanFrom(FirstPages(f.blocks, max_pages), 2, <<>>)

\* The body of _extract_isbn_from_pdf's try block, and the pages it read.
PdfIsbnBody(f, max_pages) ==
    IF ~OpensAs(f, "pdf") THEN ScanResult(Raised, <<>>)
    ELSE PdfScanFrom(FirstPages(f.blocks, max_pages), 1, <<>>)

\* The indices 1 .. n as a list.
Upto(n) == [i \in 1..n |-> i]

\* book.get_items_of_type(ebooklib.ITEM_DOCUMENT), as indices of the items
DocumentItems(blocks) == SelectSeq(Upto(Len(blocks)), LAMBDA i : blocks[i].doc)

\* for item in items: text = decode(item.get_content()); isbn = find(text);
\* if isbn: return isbn    from the k-th document item on
RECURSIVE EpubScanFrom(_, _, _, _)

\* if isbn: return isbn    with isbn what the k-th document item has given
EpubScanStep(blocks, docs, k, read, isbn) ==
    IF Truthy(isbn)
    THEN ScanResult(Returned(isbn),
                    Append(read, ReadOf(docs[k], Decode(blocks[docs[k]].body), isbn)))
    ELSE EpubScanFrom(blocks, docs, k + 1,
                      Append(read, ReadOf(docs[k], Decode(blocks[docs[k]].body), isbn)))

EpubScanFrom(blocks, docs, k, read) ==
    IF k > Len(docs) THEN ScanResult(Returned(None), read)
    ELSE IF blocks[docs[k]].body = ReadError
    THEN ScanResult(Raised, Append(read, ReadOf(docs[k], ReadError, None)))
    ELSE EpubScanStep(blocks, docs, k, read,
                      FindIsbnInText(Decode(blocks[docs[k]].body)))

\* The body of _extract_isbn_from_epub's try block, and the items it read.
EpubIsbnBody(f) ==
    IF ~OpensAs(f, "epub") THEN ScanResult(Raised, <<>>)
    ELSE EpubScanFrom(f.blocks, DocumentItems(f.blocks), 1, <<>>)

\* No except clause: the exception goes on to the caller.
Uncaught(outcome) == outcome

\* except Exception: ...   and then the final return None
CatchToNone(outcome) == IF outcome.raised THEN Returned(None) ELSE outcome

\* try: body   except Exception as exc: logger.debug(...)   return None
TryIsbn(body) == Extraction(CatchToNone(body.outcome), body.outcome.raised, body.read)

\* Book._extract_isbn_from_pdf
ExtractIsbnFromPdf(f) == TryIsbn(PdfIsbnBody(f, MaxPagesDefault))

\* Book._extract_isbn_from_epub
ExtractIsbnFromEpub(f) == TryIsbn(EpubIsbnBody(f))

\* ------------------------------------------------------------------------
\* State
\* ------------------------------------------------------------------------

VARIABLES
    suffix,   \* self.filepath.suffix
    file,     \* the file behind the path, as it is now
    cache,    \* the instance __dict__ entries cached_property has stored
    calls,    \* how often each extraction routine was invoked
    log,      \* the logger.debug messages, in order
    scan,     \* the blocks the latest ISBN scan asked for, with their bodies
    first,    \* what the first read of each attribute returned
    ret,      \* what the latest read of each attribute returned, of the
              \* reads since the file last changed
    escaped,  \* an exception has come out of a public operation
    changed,  \* the file is no longer the one the Book was created on
    text,     \* the argument of a direct _find_isbn_in_text call
    result    \* what that call returned

vars ==
    <<suffix, file, cache, calls, log, scan, first, ret, escaped, changed, text,
      result>>

bookVars == <<suffix, file, cache, calls, log, scan, first, ret, escaped, changed>>

Attrs == {"format", "metadata", "title", "author", "isbn"}

Routines == {"pdf_meta", "epub_meta", "pdf_isbn", "epub_isbn"}

\* ------------------------------------------------------------------------
\* cached_property and the attribute bodies.  A world is the part of the
\* state an attribute read can change; every getter maps a world to the
\* world after it and the outcome of the read.
\* ------------------------------------------------------------------------

World == [cache |-> cache, calls |-> calls, log |-> log, scan |-> scan]

Res(w, out) == [w |-> w, out |-> out]

\* A plain property: nothing is ever taken from the instance __dict__.
NeverCached(w, attr) == FALSE

\* cached_property.__get__: the instance __dict__ already holds the value.
IsCached(w, attr) == attr \in DOMAIN w.cache

\* cached_property.__get__ storing a computed value.
Store(w, attr, v) == [w EXCEPT !.cache = (attr :> v) @@ w.cache]

Called(w, routine) == [w EXCEPT !.calls[routine] = @ + 1]

Logged(w, raised, msg) ==
    IF raised THEN [w EXCEPT !.log = Append(@, msg)] ELSE w

Scanned(w, read) == [w EXCEPT !.scan = read]

\* Book.format
GetFormat(w) ==
    IF IsCached(w, "format") THEN Res(w, Returned(w.cache["format"]))
    ELSE Res(Store(w, "format", FormatOf(suffix)), Returned(FormatOf(suffix)))

\* cached_property.__get__ after the body ran as r: an exception leaves the
\* instance as the body left it, a value is stored and returned.
Stored(attr, r) ==
    IF r.out.raised THEN r ELSE Res(Store(r.w, attr, r.out.value), r.out)

\* The routine ran as x in world w: it was invoked, its reads are the latest
\* scan when it is an ISBN routine, and its except clause logs msg.
Ran(w, routine, msg, x) ==
    Res(Logged(IF routine \in {"pdf_isbn", "epub_isbn"}
               THEN Scanned(Called(w, routine), x.read)
               ELSE Called(w, routine),
               x.failed, msg),
        x.outcome)

\* extractors.get(self.format, lambda: {})() with self.format read as r
MetadataFor(r) ==
    IF r.out.value = PDF
    THEN Ran(r.w, "pdf_meta", "PDF metadata error", ExtractPdfMetadata(file))
    ELSE IF r.out.value = EPUB
    THEN Ran(r.w, "epub_meta", "EPUB metadata error", ExtractEpubMetadata(file))
    ELSE Res(r.w, Returned(EmptyDict))

\* Book.metadata
GetMetadata(w) ==
    IF IsCached(w, "metadata") THEN Res(w, Returned(w.cache["metadata"]))
    ELSE Stored("metadata", MetadataFor(GetFormat(w)))

\* self.metadata.get(key) with self.metadata read as r
FieldOf(r, key) ==
    IF r.out.raised THEN r ELSE Res(r.w, Returned(Get(r.out.value, key)))

\* Book.title
GetTitle(w) ==
    IF IsCached(w, "title") THEN Res(w, Returned(w.cache["title"]))
    ELSE Stored("title", FieldOf(GetMetadata(w), "title"))

\* Book.author
GetAuthor(w) ==
    IF IsCached(w, "author") THEN Res(w, Returned(w.cache["author"]))
    ELSE Stored("author", FieldOf(GetMetadata(w), "author"))

\* The ISBN lookup reading self.metadata before it runs its extractor.
IsbnAfterMetadata(r) ==
    IF r.out.value = PDF
    THEN Ran(GetMetadata(r.w).w, "pdf_isbn", "PDF ISBN error",
             ExtractIsbnFromPdf(file))
    ELSE IF r.out.value = EPUB
    THEN Ran(GetMetadata(r.w).w, "epub_isbn", "EPUB ISBN error",
             ExtractIsbnFromEpub(file))
    ELSE Res(GetMetadata(r.w).w, Returned(None))

\* extractors.get(self.format, lambda: None)() with self.format read as r
IsbnFor(r) ==
    IF r.out.value = PDF
    THEN Ran(r.w, "pdf_isbn", "PDF ISBN error", ExtractIsbnFromPdf(file))
    ELSE IF r.out.value = EPUB
    THEN Ran(r.w, "epub_isbn", "EPUB ISBN error", ExtractIsbnFromEpub(file))
    ELSE Res(r.w, Returned(None))

\* Book.isbn
GetIsbn(w) ==
    IF IsCached(w, "isbn") THEN Res(w, Returned(w.cache["isbn"]))
    ELSE Stored("isbn", IsbnFor(GetFormat(w)))

\* f"{title or 'Unknown'} ({format})" with self.format read as f
Formatted(title, f) ==
    Res(f.w, Returned(Or(title, Unknown) \o <<" ", "(">> \o f.out.value \o <<")">>))

\* Book.__str__ with self.title read as t
StrFor(t) == IF t.out.raised THEN t ELSE Formatted(t.out.value, GetFormat(t.w))

\* Book.__str__
GetStr(w) == StrFor(GetTitle(w))

\* ------------------------------------------------------------------------
\* Operations
\* ------------------------------------------------------------------------

\* The caller performs the public operation op, which ran as r.
Finish(op, r) ==
    /\ cache' = r.w.cache
    /\ calls' = r.w.calls
    /\ log' = r.w.log
    /\ scan' = r.w.scan
    /\ escaped' = (escaped \/ r.out.raised)
    /\ first' = IF op \in DOMAIN first \/ op \notin Attrs \/ r.out.raised
                THEN first ELSE (op :> r.out.value) @@ first
    /\ ret' = IF op \notin Attrs \/ r.out.raised THEN ret
              ELSE (op :> r.out.value) @@ ret
    /\ UNCHANGED <<suffix, file, changed, text, result>>

ReadFormat == Finish("format", GetFormat(World))

ReadMetadata == Finish("metadata", GetMetadata(World))

ReadTitle == Finish("title", GetTitle(World))

ReadAuthor == Finish("author", GetAuthor(World))

ReadIsbn == Finish("isbn", GetIsbn(World))

ReadStr == Finish("str", GetStr(World))

\* ------------------------------------------------------------------------
\* The files and texts the model starts from
\* ------------------------------------------------------------------------

\* The longest PDF / EPUB considered, in blocks.
MaxBlocks == 12

\* The most blank blocks between two blocks that are not blank.
MaxGap == 1

\* The longest block list built of arbitrary blocks.
MaxShort == 2

\* The longest text over ShortAlphabet handed to the matcher.
MaxLen == 5

\* The longest text put before or after an ISBN handed to the matcher.
MaxAffix == 2

SampleBook == <<"S", "a", "m", "p", "l", "e", " ", "B", "o", "o", "k">>
JaneDoe == <<"J", "a", "n", "e", " ", "D", "o", "e">>
OtherBook == <<"O", "t", "h", "e", "r">>

\* "ISBN-13: 978-1-23456-789-7"
IsbnA == <<"I", "S", "B", "N", "-", "1", "3", ":", " ", "9", "7", "8", "-", "1",
           "-", "2", "3", "4", "5", "6", "-", "7", "8", "9", "-", "7">>

\* "080442957x"
IsbnB == <<"0", "8", "0", "4", "4", "2", "9", "5", "7", "x">>

\* "080442957x" with bytes in it that are not UTF-8
IsbnBInvalid == <<"0", "8", "0", InvalidByte, "4", "4", "2", "9", "5", "7", "x",
                  InvalidByte>>

\* "page 1": no ISBN in it
Prose == <<"p", "a", "g", "e", " ", "1">>

\* "978-0-13-468599-1" and "9780134685991"
Hyphenated == <<"9", "7", "8", "-", "0", "-", "1", "3", "-", "4", "6", "8", "5",
                "9", "9", "-", "1">>
Plain == <<"9", "7", "8", "0", "1", "3", "4", "6", "8", "5", "9", "9", "1">>

\* "ISBN: 0-13-468599-1"
PrefixedIsbn10 == <<"I", "S", "B", "N", ":", " ", "0", "-", "1", "3", "-", "4",
                    "6", "8", "5", "9", "9", "-", "1">>

\* "2020"
Year == <<"2", "0", "2", "0">>

\* "ISBN 0-8044-2957-X"
UpperX == <<"I", "S", "B", "N", " ", "0", "-", "8", "0", "4", "4", "-", "2", "9",
            "5", "7", "-", "X">>

SeqsUpTo(S, n) == UNION {[1..k -> S] : k \in 0..n}

Blanks(n) == [i \in 1..n |-> Block(TRUE, <<>>)]

\* Blank blocks with at most two others among them.
SparseLists(bodies) ==
    {Blanks(n) : n \in 0..MaxBlocks}
    \cup {Blanks(a) \o <<Block(TRUE, b)>> : a \in 0..(MaxBlocks - 1), b \in bodies}
    \cup {Blanks(a) \o <<Block(TRUE, b)>> \o Blanks(g) \o <<Block(TRUE, c)>> :
             <<a, g>> \in {p \in (0..MaxBlocks) \X (0..MaxGap) :
                              p[1] + p[2] + 2 <= MaxBlocks},
             <<b, c>> \in bodies \X bodies}

NoInfo == Info("none", {})

InfoError == Info("error", {})

PdfInfo == Info("ok", {<<"/Title", <<SampleBook>>>>, <<"/Author", <<JaneDoe>>>>})

PdfInfos ==
    {NoInfo, InfoError, Info("ok", {}), PdfInfo,
     Info("ok", {<<"title", <<SampleBook>>>>, <<"author", <<JaneDoe>>>>}),
     Info("ok", {<<"/Title", <<<<>>>>>>, <<"title", <<OtherBook>>>>})}

EpubInfo ==
    Info("ok", {<<"title", <<SampleBook, OtherBook>>>>, <<"creator", <<JaneDoe>>>>})

EpubInfos ==
    {InfoError, EpubInfo,
     Info("ok", {<<"title", <<>>>>, <<"creator", <<>>>>}),
     Info("ok", {<<"title", <<OtherBook>>>>})}

File(kind, info, blocks) == [kind |-> kind, info |-> info, blocks |-> blocks]

Corrupt == File("corrupt", InfoError, <<>>)

FewLists == {<<>>, <<Block(TRUE, IsbnA)>>, <<Block(TRUE, ReadError)>>}

PdfBlocks == {Block(TRUE, b) : b \in {Prose, IsbnB, ReadError, None}}

EpubBlocks ==
    {Block(TRUE, Prose), Block(TRUE, IsbnBInvalid), Block(TRUE, ReadError),
     Block(FALSE, IsbnA)}

PdfFiles ==
    {File("pdf", i, b) : i \in PdfInfos, b \in FewLists}
    \cup {File("pdf", PdfInfo, b) : b \in SparseLists({IsbnA, IsbnB, ReadError})}
    \cup {File("pdf", PdfInfo, b) : b \in SeqsUpTo(PdfBlocks, MaxShort)}

EpubFiles ==
    {File("epub", i, b) : i \in EpubInfos, b \in FewLists}
    \cup {File("epub", EpubInfo, b) : b \in SparseLists({IsbnA, IsbnB, ReadError})}
    \cup {File("epub", EpubInfo, b) : b \in SeqsUpTo(EpubBlocks, MaxShort)}

DotPdf == <<".", "p", "d", "f">>
DotEpub == <<".", "e", "p", "u", "b">>

Suffixes ==
    {DotPdf, <<".", "P", "D", "F">>, <<".", "P", "d", "f">>, DotEpub,
     <<".", "E", "P", "U", "B">>, <<".", "t", "x", "t">>, <<".", "p", "d">>, <<>>}

\* What the file behind a path with suffix sfx can be replaced by while a
\* Book for the path exists: a well-formed file of the suffix's format with
\* another title and another ISBN, or one no library opens.
Replacements(sfx) ==
    {Corrupt,
     IF FormatOf(sfx) = EPUB
     THEN File("epub", Info("ok", {<<"title", <<OtherBook>>>>}),
               <<Block(TRUE, IsbnB)>>)
     ELSE File("pdf", Info("ok", {<<"/Title", <<OtherBook>>>>}),
               <<Block(TRUE, IsbnB)>>)}

\* A path and the file behind it.
Books ==
    (Suffixes \X {File("pdf", PdfInfo, <<Block(TRUE, IsbnA)>>),
                  File("epub", EpubInfo, <<Block(TRUE, IsbnA)>>), Corrupt})
    \cup ({DotPdf} \X PdfFiles)
    \cup ({DotEpub} \X EpubFiles)

NotCalled == <<"NotCalled">>

NoCalls == [r \in Routines |-> 0]

\* A Book right after Book(filepath): nothing read, nothing cached.
NewBook(b) ==
    /\ suffix = b[1]
    /\ file = b[2]
    /\ cache = <<>>
    /\ calls = NoCalls
    /\ log = <<>>
    /\ scan = <<>>
    /\ first = <<>>
    /\ ret = <<>>
    /\ escaped = FALSE
    /\ changed = FALSE

Init ==
    /\ \E b \in Books : NewBook(b)
    /\ text = <<>>
    /\ result = NotCalled

\* The file is rewritten, truncated or swapped behind the Book's back.
FileChanges ==
    /\ ~changed
    /\ \E f \in Replacements(suffix) \ {file} : file' = f
    /\ changed' = TRUE
    /\ ret' = <<>>
    /\ UNCHANGED <<suffix, cache, calls, log, scan, first, escaped, text, result>>

Next ==
    \/ ReadFormat
    \/ ReadMetadata
    \/ ReadTitle
    \/ ReadAuthor
    \/ ReadIsbn
    \/ ReadStr
    \/ FileChanges

Spec == Init /\ [][Next]_vars

\* ------------------------------------------------------------------------
\* Direct calls of the pattern matcher
\* ------------------------------------------------------------------------

ShortAlphabet == {"0", "2", "x", "-", " ", ArabicThree}

AffixAlphabet == {"1", "-", " ", "a"}

SampleTexts == {Hyphenated, Plain, PrefixedIsbn10, IsbnA, IsbnB, Year, UpperX, Prose}

ShortTexts == SeqsUpTo(ShortAlphabet, MaxLen) \cup SampleTexts

AffixedTexts ==
    {pre \o core \o post : pre \in SeqsUpTo(AffixAlphabet, MaxAffix),
                           core \in {Hyphenated, Plain},
                           post \in SeqsUpTo(AffixAlphabet, MaxAffix)}

\* Book._find_isbn_in_text(text), called once
FindIsbn ==
    /\ result = NotCalled
    /\ result' = FindIsbnInText(text)
    /\ UNCHANGED <<bookVars, text>>

InitTexts(texts) ==
    /\ NewBook(<<<<>>, Corrupt>>)
    /\ text \in texts
    /\ result = NotCalled

InitMatch == InitTexts(ShortTexts)

InitAffix == InitTexts(AffixedTexts)

NextMatch == FindIsbn

SpecMatch == InitMatch /\ [][NextMatch]_vars

SpecAffix == InitAffix /\ [][NextMatch]_vars

\* ------------------------------------------------------------------------
\* Properties of the pattern matcher (SpecMatch, SpecAffix)
\* ------------------------------------------------------------------------

MatcherRan == result # NotCalled

\* core occurs in t from position p on.
OccursAt(core, t, p) ==
    p + Len(core) - 1 <= Len(t) /\ SubSeq(t, p, p + Len(core) - 1) = core

\* C1 as the spec states it: for every text that contains 978-0-13-468599-1 or
\* 9780134685991, whatever precedes or follows it, _find_isbn_in_text returns
\* 9780134685991.
C1_AnyContext ==
    (MatcherRan /\ \E core \in {Hyphenated, Plain}, p \in 1..(Len(text) + 1) :
                   OccursAt(core, text, p))
    => result = Plain

\* The occurrence of core at p stands free in t: nothing before it is a digit,
\* the character before it is no word character, the character after it is
\* no word character, and that character is no hyphen or whitespace with a
\* digit behind it.
StandsFree(core, t, p) ==
    LET q == p + Len(core)
    IN  /\ OccursAt(core, t, p)
        /\ \A i \in 1..(p - 1) : ~IsDigit(t[i])
        /\ (p > 1 => ~IsWord(t[p - 1]))
        /\ (q <= Len(t) => ~IsWord(t[q]))
        /\ ~(q + 1 <= Len(t) /\ IsSep(t[q]) /\ IsDigit(t[q + 1]))

\* C1, amended: for every text in which 978-0-13-468599-1 or 9780134685991
\* stands free (no digit anywhere before it, no word character right before
\* or right after it, and no hyphen or whitespace followed by a digit right
\* after it), _find_isbn_in_text returns 9780134685991.
C1_StandingFree ==
    (MatcherRan /\ \E core \in {Hyphenated, Plain}, p \in 1..(Len(text) + 1) :
                   StandsFree(core, text, p))
    => result = Plain

\* The ISBN between other text on both sides was found and normalized.
C1_Witness ==
    /\ text = <<"a", " ">> \o Hyphenated \o <<" ", "a">>
    /\ result = Plain

\* Digits and an upper-case X that can only be the last character.
NormalForm(r) ==
    \A i \in 1..Len(r) :
        /\ r[i] \in AsciiDigits \cup {"X"}
        /\ (r[i] = "X" => i = Len(r))

\* "0134685991"
Isbn10Digits == <<"0", "1", "3", "4", "6", "8", "5", "9", "9", "1">>

\* "080442957X"
Isbn10UpperX == <<"0", "8", "0", "4", "4", "2", "9", "5", "7", "X">>

\* C7: every value other than None that _find_isbn_in_text returns is in
\* normal form: no separator, only the characters 0-9 and upper-case X, X only
\* as the last character; a lower-case x check character comes back as X, and
\* "ISBN: 0-13-468599-1" gives "0134685991".
C7_NormalForm ==
    /\ (MatcherRan /\ result # None) => NormalForm(result)
    /\ (MatcherRan /\ text = PrefixedIsbn10) => result = Isbn10Digits
    /\ (MatcherRan /\ text = IsbnB) => result = Isbn10UpperX

\* A text with a separator, a digit that is not ASCII and a lower-case x.
C7_Witness ==
    /\ text = <<"0", "-", ArabicThree, "0", "x">>
    /\ result = <<"0", "0", "X">>

\* Exactly 13 digits that begin with 978 or 979.
Isbn13Shape(r) ==
    /\ Len(r) = 13
    /\ \A i \in 1..13 : r[i] \in AsciiDigits
    /\ r[1] = "9" /\ r[2] = "7" /\ r[3] \in {"8", "9"}

\* Exactly 10 characters: 9 digits and then a digit or X.
Isbn10Shape(r) ==
    /\ Len(r) = 10
    /\ \A i \in 1..9 : r[i] \in AsciiDigits
    /\ r[10] \in AsciiDigits \cup {"X"}

\* C8 as the spec states it: every value other than None that
\* _find_isbn_in_text returns is exactly 13 digits beginning with 978 or 979,
\* or exactly 10 characters (9 digits and a digit or X); a text whose only
\* digit group is a 4-digit year gives None.
C8_OnlyIsbnShapes ==
    /\ (MatcherRan /\ result # None) => (Isbn13Shape(result) \/ Isbn10Shape(result))
    /\ (MatcherRan /\ text = Year) => result = None

\* ------------------------------------------------------------------------
\* Properties of a Book (Spec)
\* ------------------------------------------------------------------------

\* The attribute has been computed and stored.
Has(attr) == attr \in DOMAIN cache

HasLogged(msg) == \E i \in 1..Len(log) : log[i] = msg

MetadataFailed == HasLogged("PDF metadata error") \/ HasLogged("EPUB metadata error")

IsbnFailed == HasLogged("PDF ISBN error") \/ HasLogged("EPUB ISBN error")

IsPdfPath == Lower(suffix) = DotPdf

IsEpubPath == Lower(suffix) = DotEpub

\* The library of the path's format opens the file.
Opens == (IsPdfPath /\ file.kind = "pdf") \/ (IsEpubPath /\ file.kind = "epub")

\* The library of the path's format cannot open the file, or cannot read its
\* declared metadata.
MetadataUnreadable ==
    (IsPdfPath \/ IsEpubPath) /\ (~Opens \/ file.info.status = "error")

\* C2: no error comes out of reading format, metadata, title, author or isbn,
\* or out of str(); when opening, parsing or reading the file fails during
\* metadata extraction, metadata is {} and title and author are None; when it
\* fails during the ISBN scan, isbn is None.
C2_NoErrorEscapes ==
    /\ ~escaped
    /\ MetadataFailed =>
          /\ Has("metadata") /\ cache["metadata"] = EmptyDict
          /\ Has("title") => cache["title"] = None
          /\ Has("author") => cache["author"] = None
    /\ IsbnFailed => (Has("isbn") /\ cache["isbn"] = None)
    /\ (~changed /\ MetadataUnreadable /\ Has("metadata")) =>
          (MetadataFailed /\ cache["metadata"] = EmptyDict)
    /\ (~changed /\ (IsPdfPath \/ IsEpubPath) /\ ~Opens /\ Has("isbn")) =>
          (IsbnFailed /\ cache["isbn"] = None)

\* Both extractions of a file no library opens have failed, and every
\* attribute has been read.
C2_Witness ==
    /\ file = Corrupt /\ ~changed
    /\ MetadataFailed /\ IsbnFailed
    /\ DOMAIN ret = Attrs
    /\ cache["metadata"] = EmptyDict /\ cache["title"] = None
    /\ cache["isbn"] = None

\* C3: each extraction (metadata, ISBN) runs at most once per Book, and every
\* later read of an attribute returns what the first read returned, also
\* when the first computation failed and the file has changed since.
C3_ComputedOnce ==
    /\ calls["pdf_meta"] + calls["epub_meta"] <= 1
    /\ calls["pdf_isbn"] + calls["epub_isbn"] <= 1
    /\ \A a \in DOMAIN ret : a \in DOMAIN first /\ ret[a] = first[a]
    /\ \A a \in DOMAIN first : Has(a) /\ cache[a] = first[a]

\* The first reads failed on a file that has since been replaced by one with
\* a title and an ISBN; every attribute has been read again since and reads
\* as it first did.
C3_Witness ==
    /\ changed /\ file.kind = "pdf" /\ file.blocks = <<Block(TRUE, IsbnB)>>
    /\ MetadataFailed /\ IsbnFailed
    /\ DOMAIN ret = Attrs
    /\ ret["isbn"] = None /\ ret["title"] = None /\ ret["metadata"] = EmptyDict

\* C6: for a path whose lower-cased suffix is neither .pdf nor .epub, format
\* is "Unknown", metadata is {}, title, author and isbn are None, and no
\* extraction routine is ever invoked; .pdf and .epub in any letter case are
\* PDF and EPUB and dispatch to that format's routines.
C6_FormatDispatch ==
    /\ (~IsPdfPath /\ ~IsEpubPath) =>
          /\ Has("format") => cache["format"] = Unknown
          /\ Has("metadata") => cache["metadata"] = EmptyDict
          /\ \A a \in {"title", "author", "isbn"} : Has(a) => cache[a] = None
          /\ calls = NoCalls /\ scan = <<>> /\ log = <<>>
    /\ IsPdfPath =>
          /\ Has("format") => cache["format"] = PDF
          /\ calls["epub_meta"] = 0 /\ calls["epub_isbn"] = 0
          /\ Has("metadata") => calls["pdf_meta"] = 1
          /\ Has("isbn") => calls["pdf_isbn"] = 1
    /\ IsEpubPath =>
          /\ Has("format") => cache["format"] = EPUB
          /\ calls["pdf_meta"] = 0 /\ calls["pdf_isbn"] = 0
          /\ Has("metadata") => calls["epub_meta"] = 1
          /\ Has("isbn") => calls["epub_isbn"] = 1

\* Every attribute of a .txt path over a well-formed PDF has been read.
C6_Witness ==
    /\ suffix = <<".", "t", "x", "t">> /\ file.kind = "pdf"
    /\ DOMAIN ret = Attrs
    /\ ret["format"] = Unknown /\ ret["isbn"] = None
    /\ calls = NoCalls

\* "9781234567897"
Isbn13A == <<"9", "7", "8", "1", "2", "3", "4", "5", "6", "7", "8", "9", "7">>

\* The blocks of file f an ISBN scan goes through, in its order: the first
\* ten pages of a PDF, the document items of an EPUB.
Candidates(f) ==
    IF f.kind = "pdf" THEN Upto(Min(10, Len(f.blocks)))
    ELSE DocumentItems(f.blocks)

\* What reading the block gives the scan: its text, or ReadError.
TextOf(f, i) ==
    IF f.blocks[i].body = ReadError THEN ReadError
    ELSE IF f.kind = "pdf" THEN PageText(f.blocks[i].body)
    ELSE Decode(f.blocks[i].body)

\* Block i of f can be read and its text holds an ISBN.
HasIsbn(f, i) ==
    TextOf(f, i) # ReadError /\ FindIsbnInText(TextOf(f, i)) # None

\* The reads of the scan that gave a match.
Hits == {k \in 1..Len(scan) : Truthy(scan[k].found)}

\* The reads of the scan that raised.
Failures == {k \in 1..Len(scan) : scan[k].text = ReadError}

\* The isbn in the cache was computed by a scan of the file as it is now.
ScannedThisFile == Has("isbn") /\ ~changed /\ Opens

\* The scan went through the candidates of c in order, from the first to
\* its last read, and got each one's text.
InOrderOf(f, c) ==
    /\ Len(scan) <= Len(c)
    /\ \A k \in 1..Len(scan) :
          scan[k].idx = c[k] /\ scan[k].text = TextOf(f, c[k])

\* C4: isbn is what the matcher returns on the first block, in scan order,
\* whose text gives a match; the blocks after that one are never read; isbn
\* is None exactly when every scanned block gives no-match.
C4_FirstMatch ==
    /\ \A k \in 1..Len(scan) :
          scan[k].found = IF scan[k].text = ReadError THEN None
                          ELSE FindIsbnInText(scan[k].text)
    /\ Has("isbn") =>
          /\ Hits \subseteq {Len(scan)}
          /\ Hits # {} => cache["isbn"] = scan[Len(scan)].found
          /\ cache["isbn"] = None <=> Hits = {}
    /\ ScannedThisFile =>
          /\ InOrderOf(file, Candidates(file))
          /\ (Hits = {} /\ Failures = {}) => Len(scan) = Len(Candidates(file))

\* Two blocks with different ISBNs: the scan stopped at the first of them,
\* after a block without one, and the second was not read.
C4_Witness ==
    /\ ScannedThisFile /\ IsEpubPath
    /\ Len(file.blocks) = 4
    /\ file.blocks[2].body = IsbnB /\ file.blocks[4].body = IsbnA
    /\ Len(scan) = 2
    /\ cache["isbn"] = Isbn10UpperX

\* Page 3 of the PDF reads "ISBN-13: 978-1-23456-789-7"; the other pages among
\* the first 10 can be read and hold no ISBN.
OnPageThree(f) ==
    /\ Len(f.blocks) >= 3 /\ f.blocks[3].body = IsbnA
    /\ \A i \in 1..Min(10, Len(f.blocks)) :
          i # 3 => (f.blocks[i].body # ReadError /\ ~HasIsbn(f, i))

\* "ISBN-13: 978-1-23456-789-7" is on page 11 or later only, and no page among
\* the first 10 holds an ISBN.
BeyondPageTen(f) ==
    /\ \E i \in 11..Len(f.blocks) : f.blocks[i].body = IsbnA
    /\ \A i \in 1..Min(10, Len(f.blocks)) : ~HasIsbn(f, i)

\* C5: the ISBN scan of a PDF reads pages 1 to 10 at most.  With
\* "ISBN-13: 978-1-23456-789-7" on page 3 and no ISBN on the other pages of
\* the first 10, isbn is "9781234567897"; with that text on page 11 or later
\* only (page 12, say), isbn is None and no page beyond the 10th is read.
C5_FirstTenPages ==
    /\ calls["pdf_isbn"] > 0 => \A k \in 1..Len(scan) : scan[k].idx <= 10
    /\ (ScannedThisFile /\ IsPdfPath /\ OnPageThree(file)) =>
          (cache["isbn"] = Isbn13A /\ Len(scan) = 3)
    /\ (ScannedThisFile /\ IsPdfPath /\ BeyondPageTen(file)) =>
          cache["isbn"] = None

\* A 12-page PDF with the ISBN on page 12: ten pages read, isbn None.
C5_Witness ==
    /\ ScannedThisFile /\ IsPdfPath
    /\ Len(file.blocks) = 12 /\ file.blocks[12].body = IsbnA
    /\ Len(scan) = 10 /\ scan[10].idx = 10
    /\ cache["isbn"] = None

\* The position in c of the first block of f that cannot be read, and of the
\* first one that holds an ISBN, if there is one.
FirstBad(f, c) ==
    {k \in 1..Len(c) : /\ TextOf(f, c[k]) = ReadError
                       /\ \A j \in 1..(k - 1) : TextOf(f, c[j]) # ReadError}

FirstHit(f, c) ==
    {k \in 1..Len(c) : /\ HasIsbn(f, c[k])
                       /\ \A j \in 1..(k - 1) : ~HasIsbn(f, c[j])}

\* C9: when reading the k-th scanned block fails and no earlier block gave a
\* match, the scan ends there: isbn is None, the blocks after k are never
\* read, and no error comes out; a match in a block before k is returned
\* without block k ever being read.
C9_FailedRead ==
    /\ Failures \subseteq {Len(scan)}
    /\ Failures # {} => (Hits = {} /\ ~escaped /\ IsbnFailed)
    /\ (Failures # {} /\ Has("isbn")) => cache["isbn"] = None
    /\ ScannedThisFile =>
          \A b \in FirstBad(file, Candidates(file)) :
              /\ (\A h \in FirstHit(file, Candidates(file)) : b < h) =>
                    /\ cache["isbn"] = None
                    /\ Len(scan) = b /\ Failures = {b}
              /\ \A h \in FirstHit(file, Candidates(file)) :
                    h < b => /\ Len(scan) = h /\ Failures = {}
                             /\ cache["isbn"] = scan[h].found
                             /\ cache["isbn"] # None

\* Page 2 cannot be read and page 4 holds an ISBN: the scan ended at page 2.
C9_Witness ==
    /\ ScannedThisFile /\ IsPdfPath
    /\ Len(file.blocks) = 4
    /\ file.blocks[2].body = ReadError /\ file.blocks[4].body = IsbnA
    /\ Len(scan) = 2 /\ cache["isbn"] = None /\ ~escaped

\* What metadata extraction has left on the Book, and what the ISBN scan has.
MetadataPart ==
    <<[a \in DOMAIN cache \cap {"metadata", "title", "author"} |-> cache[a]],
      calls["pdf_meta"], calls["epub_meta"],
      SelectSeq(log, LAMBDA m : m \in {"PDF metadata error", "EPUB metadata error"})>>

IsbnPart ==
    <<[a \in DOMAIN cache \cap {"isbn"} |-> cache[a]],
      calls["pdf_isbn"], calls["epub_isbn"], scan,
      SelectSeq(log, LAMBDA m : m \in {"PDF ISBN error", "EPUB ISBN error"})>>

\* The file with its declared metadata made unreadable, and with its blocks
\* made unreadable.
WithoutInfo(f) == [f EXCEPT !.info = InfoError]

WithoutBlocks(f) == [f EXCEPT !.blocks = <<Block(TRUE, ReadError)>>]

\* What the metadata extraction and the ISBN scan of the path's format make
\* of file f.
MetadataOf(f) ==
    IF IsPdfPath THEN ExtractPdfMetadata(f).outcome.value
    ELSE IF IsEpubPath THEN ExtractEpubMetadata(f).outcome.value
    ELSE EmptyDict

IsbnOf(f) ==
    IF IsPdfPath THEN ExtractIsbnFromPdf(f).outcome.value
    ELSE IF IsEpubPath THEN ExtractIsbnFromEpub(f).outcome.value
    ELSE None

\* C10: metadata and ISBN are resolved independently: reading isbn leaves
\* what metadata extraction has produced untouched and does not run it,
\* reading metadata, title, author or str() does the same for the ISBN scan,
\* and each result is what it would be if the other extraction failed.
C10_Independent ==
    /\ [][/\ ReadIsbn => MetadataPart' = MetadataPart
          /\ (ReadMetadata \/ ReadTitle \/ ReadAuthor \/ ReadStr \/ ReadFormat) =>
                IsbnPart' = IsbnPart]_vars
    /\ []((~changed /\ Has("isbn")) => cache["isbn"] = IsbnOf(WithoutInfo(file)))
    /\ []((~changed /\ Has("metadata")) =>
             cache["metadata"] = MetadataOf(WithoutBlocks(file)))

\* The metadata of the PDF could not be read, and its ISBN was found.
C10_Witness ==
    /\ ~changed /\ IsPdfPath /\ file.kind = "pdf"
    /\ file.info.status = "error"
    /\ MetadataFailed /\ ~IsbnFailed
    /\ Has("metadata") /\ cache["metadata"] = EmptyDict
    /\ Has("isbn") /\ cache["isbn"] = Isbn13A

====
